---- MODULE Spec2Model ----
(***************************************************************************)
(* Model of the aluminium cost / CO2 accounting pipeline of src/app.py:    *)
(* the trade-based emissions function                                      *)
(* compute_total_co2_intensity_from_trade, the core loop over              *)
(* countries_selected that builds `results`, and the assembly of the       *)
(* result table with its derived column.                                   *)
(*                                                                         *)
(* Numbers.  The program computes in IEEE doubles (numpy float64).  The    *)
(* model computes the same expressions, in the same order, over exact      *)
(* rationals (arbitrary-precision numerator and denominator, kept as       *)
(* sequences of base-10000 limbs), extended with the two non-finite        *)
(* outcomes numpy produces for a division by zero: nan (0/0) and +-inf     *)
(* (x/0).  Rounding error of the doubles is therefore not modelled.        *)
(***************************************************************************)
EXTENDS Integers, Sequences, FiniteSets, TLC

(***************************************************************************)
(* Arbitrary-precision naturals: little-endian limbs, no leading zero limb *)
(***************************************************************************)
Base == 10000

RECURSIVE Trim(_)
Trim(s) ==
    IF s = <<>> THEN <<>>
    ELSE IF s[Len(s)] = 0 THEN Trim(SubSeq(s, 1, Len(s) - 1))
    ELSE s

RECURSIVE NatOf(_)
NatOf(i) == IF i = 0 THEN <<>> ELSE <<i % Base>> \o NatOf(i \div Base)

Hd(s) == IF s = <<>> THEN 0 ELSE Head(s)

Tl(s) == IF s = <<>> THEN <<>> ELSE Tail(s)

RECURSIVE BAddC(_, _, _)
BAddC(a, b, c) ==
    IF a = <<>> /\ b = <<>> THEN NatOf(c)
    ELSE LET x == Hd(a) + Hd(b) + c
         IN  <<x % Base>> \o BAddC(Tl(a), Tl(b), x \div Base)

BAdd(a, b) == BAddC(a, b, 0)

\* a - b - c for a >= b + c
RECURSIVE BSubC(_, _, _)
BSubC(a, b, c) ==
    IF a = <<>> THEN <<>>
    ELSE LET x == Hd(a) - Hd(b) - c
         IN  IF x < 0 THEN <<x + Base>> \o BSubC(Tl(a), Tl(b), 1)
             ELSE <<x>> \o BSubC(Tl(a), Tl(b), 0)

BSub(a, b) == Trim(BSubC(a, b, 0))

RECURSIVE BCmpAt(_, _, _)
BCmpAt(a, b, i) ==
    IF i = 0 THEN 0
    ELSE IF a[i] < b[i] THEN -1
    ELSE IF a[i] > b[i] THEN 1
    ELSE BCmpAt(a, b, i - 1)

\* -1, 0 or 1 as a < b, a = b, a > b
BCmp(a, b) ==
    IF Len(a) < Len(b) THEN -1
    ELSE IF Len(a) > Len(b) THEN 1
    ELSE BCmpAt(a, b, Len(a))

\* a * m + c for one limb m
RECURSIVE BMulS(_, _, _)
BMulS(a, m, c) ==
    IF a = <<>> THEN NatOf(c)
    ELSE LET x == Head(a) * m + c
         IN  <<x % Base>> \o BMulS(Tail(a), m, x \div Base)

BShift(a) == IF a = <<>> THEN <<>> ELSE <<0>> \o a

RECURSIVE BMul(_, _)
BMul(a, b) ==
    IF a = <<>> \/ b = <<>> THEN <<>>
    ELSE BAdd(BMulS(a, Head(b), 0), BShift(BMul(a, Tail(b))))

\* quotient and remainder of the limbs a[1..i] (with carried-in remainder r)
\* by a small integer m
RECURSIVE BDivAt(_, _, _, _)
BDivAt(a, m, i, r) ==
    IF i = 0 THEN [q |-> <<>>, r |-> r]
    ELSE LET cur  == r * Base + a[i]
             rest == BDivAt(a, m, i - 1, cur % m)
         IN  [q |-> rest.q \o <<cur \div m>>, r |-> rest.r]

BDivS(a, m) ==
    LET x == BDivAt(a, m, Len(a), 0) IN [q |-> Trim(x.q), r |-> x.r]

(***************************************************************************)
(* Extended rationals: k = "num" (sg * n / d), "inf" (sg * infinity), "nan" *)
(***************************************************************************)
SmallPrimes == <<2, 3, 5, 7, 11, 13, 1889>>

RECURSIVE Strip(_, _, _)
Strip(n, d, ps) ==
    IF ps = <<>> THEN <<n, d>>
    ELSE LET qn == BDivS(n, Head(ps))
             qd == BDivS(d, Head(ps))
         IN  IF qn.r = 0 /\ qd.r = 0 THEN Strip(qn.q, qd.q, ps)
             ELSE Strip(n, d, Tail(ps))

Zero == [k |-> "num", sg |-> 0, n |-> <<>>, d |-> <<1>>]

NaN == [k |-> "nan", sg |-> 0, n |-> <<>>, d |-> <<1>>]

Inf(s) == [k |-> "inf", sg |-> s, n |-> <<>>, d |-> <<1>>]

Mk(s, n, d) ==
    IF n = <<>> \/ s = 0 THEN Zero
    ELSE LET x == Strip(n, d, SmallPrimes)
         IN  [k |-> "num", sg |-> s, n |-> x[1], d |-> x[2]]

\* the rational p / q of two integers, q > 0
Frac(p, q) ==
    Mk(IF p > 0 THEN 1 ELSE IF p < 0 THEN -1 ELSE 0,
       NatOf(IF p < 0 THEN -p ELSE p), NatOf(q))

Num(p) == Frac(p, 1)

IsNum(a) == a.k = "num"

IsNaN(a) == a.k = "nan"

IsZero(a) == a.k = "num" /\ a.sg = 0

Neg(a) == [a EXCEPT !.sg = -a.sg]

Add(a, b) ==
    IF a.k = "nan" \/ b.k = "nan" THEN NaN
    ELSE IF a.k = "inf" /\ b.k = "inf" THEN (IF a.sg = b.sg THEN a ELSE NaN)
    ELSE IF a.k = "inf" THEN a
    ELSE IF b.k = "inf" THEN b
    ELSE IF a.sg = 0 THEN b
    ELSE IF b.sg = 0 THEN a
    ELSE LET x == BMul(a.n, b.d)
             y == BMul(b.n, a.d)
             d == BMul(a.d, b.d)
             c == BCmp(x, y)
         IN  IF a.sg = b.sg THEN Mk(a.sg, BAdd(x, y), d)
             ELSE IF c = 0 THEN Zero
             ELSE IF c > 0 THEN Mk(a.sg, BSub(x, y), d)
             ELSE Mk(b.sg, BSub(y, x), d)

Sub(a, b) == Add(a, Neg(b))

Mul(a, b) ==
    IF a.k = "nan" \/ b.k = "nan" THEN NaN
    ELSE IF a.k = "inf" \/ b.k = "inf"
         THEN (IF a.sg * b.sg = 0 THEN NaN ELSE Inf(a.sg * b.sg))
    ELSE Mk(a.sg * b.sg, BMul(a.n, b.n), BMul(a.d, b.d))

\* float division: x / 0 is +-inf, 0 / 0 is nan, no exception
Div(a, b) ==
    IF a.k = "nan" \/ b.k = "nan" THEN NaN
    ELSE IF b.k = "inf" THEN (IF a.k = "inf" THEN NaN ELSE Zero)
    ELSE IF a.k = "inf" THEN Inf(IF b.sg < 0 THEN -a.sg ELSE a.sg)
    ELSE IF b.sg = 0 THEN (IF a.sg = 0 THEN NaN ELSE Inf(a.sg))
    ELSE Mk(a.sg * b.sg, BMul(a.n, b.d), BMul(a.d, b.n))

\* == of two floats: nan equals nothing, not even itself
Eq(a, b) ==
    /\ a.k # "nan" /\ b.k # "nan"
    /\ a.k = b.k
    /\ a.sg = b.sg
    /\ a.k = "num" => BMul(a.n, b.d) = BMul(b.n, a.d)

\* a > 0
Pos(a) == a.k # "nan" /\ a.sg > 0

\* a <= 0
NonPos(a) == a.k # "nan" /\ a.sg <= 0

(***************************************************************************)
(* Reference data.  Countries are numbered in the sort order of their      *)
(* names; NoCountry stands for an empty country cell ("nan" after          *)
(* astype(str)), which equals no country name.                             *)
(***************************************************************************)
Countries == {1, 2}

NoCountry == 0

MaxCountryRows == 2

MaxTradeRows == 2

\* all sequences over S of length at most n
SeqsUpTo(S, n) == UNION {[1..m -> S] : m \in 0..n}

\* sorted(df["country"].unique())
RECURSIVE SortedSeq(_)
SortedSeq(S) ==
    IF S = {} THEN <<>>
    ELSE LET c == CHOOSE m \in S : \A o \in S : m <= o
         IN  <<c>> \o SortedSeq(S \ {c})

CountryRow(c) ==
    [country |-> c,
     energy_kwh_per_t |-> Num(12000 + 1000 * c),
     labour_cost_eur_per_t |-> Num(100 + 100 * c)]

ElectricityRow(c) ==
    [country |-> c,
     avg_electricity_price_eur_per_kwh |-> Frac(5 * c, 100),
     avg_co2_kg_per_kwh |-> Frac(6, 10 * c)]

AluminaRow(c) ==
    [country |-> c,
     alumina_market_price_eur_per_t |-> Num(350),
     alumina_transport_cost_eur_per_t |-> Num(50 * c)]

PetcokeRow(c) ==
    [country |-> c,
     petcoke_market_price_eur_per_t |-> Num(250),
     petcoke_transport_cost_eur_per_t |-> Num(50 * c)]

\* a row of the trade-flow table with every cell empty (after cleaning)
EmptyTradeRow ==
    [Bauxite_destination_m |-> NoCountry, Bauxite_tonnes_m |-> Zero,
     Bauxite_destination_x |-> NoCountry, Bauxite_tonnes_x |-> Zero,
     Bauxite_local_country |-> NoCountry, Bauxite_local_tonnes |-> Zero,
     Alumina_destination_m |-> NoCountry, Alumina_tonnes_m |-> Zero,
     Alumina_destination_x |-> NoCountry, Alumina_tonnes_x |-> Zero,
     country1 |-> NoCountry, avg_co2_kg_per_kwh |-> Zero,
     country2 |-> NoCountry, energy_kwh_per_t |-> Zero]

\* the rows the trade-flow table is drawn from.  "bauxite_m": c imports
\* 2e9 kg of bauxite, on a grid of 0.6/c kg CO2 per kWh; "local": c mines
\* 1000 kt of bauxite and exports 5e8 kg of alumina; "alumina_m": c imports
\* 1e9 kg of alumina; "exports": c exports 1e9 kg of bauxite and 1e9 kg of
\* alumina
TradeRow(c, kind) ==
    CASE kind = "bauxite_m" ->
           [EmptyTradeRow EXCEPT !.Bauxite_destination_m = c,
                                 !.Bauxite_tonnes_m = Num(2000000000),
                                 !.country1 = c,
                                 !.avg_co2_kg_per_kwh = Frac(6, 10 * c),
                                 !.country2 = c,
                                 !.energy_kwh_per_t = Num(12000 + 1000 * c)]
      [] kind = "local" ->
           [EmptyTradeRow EXCEPT !.Bauxite_local_country = c,
                                 !.Bauxite_local_tonnes = Num(1000),
                                 !.Alumina_destination_x = c,
                                 !.Alumina_tonnes_x = Num(500000000)]
      [] kind = "alumina_m" ->
           [EmptyTradeRow EXCEPT !.Alumina_destination_m = c,
                                 !.Alumina_tonnes_m = Num(1000000000)]
      [] kind = "exports" ->
           [EmptyTradeRow EXCEPT !.Bauxite_destination_x = c,
                                 !.Bauxite_tonnes_x = Num(1000000000),
                                 !.Alumina_destination_x = c,
                                 !.Alumina_tonnes_x = Num(1000000000)]

\* country 1 has rows of every kind, country 2 only imports bauxite
TradeRows ==
    <<TradeRow(1, "bauxite_m"), TradeRow(1, "local"), TradeRow(1, "alumina_m"),
      TradeRow(1, "exports"), TradeRow(2, "bauxite_m")>>

\* the trade-flow tables of at most n different rows; the rows are listed in
\* the order of TradeRows, the function only sums over them
TradeTables(n) ==
    {[r \in DOMAIN s |-> TradeRows[s[r]]] :
        s \in {t \in SeqsUpTo(DOMAIN TradeRows, n) :
                  \A i \in 1..(Len(t) - 1) : t[i] < t[i + 1]}}

\* df.loc[df[key] == country_name, col].sum()
RECURSIVE SumWhere(_, _, _, _)
SumWhere(df, key, country_name, col) ==
    IF df = <<>> THEN Zero
    ELSE LET rest == SumWhere(Tail(df), key, country_name, col)
         IN  IF Head(df)[key] = country_name THEN Add(Head(df)[col], rest)
             ELSE rest

\* df["country"].values
CountryValues(df) == {df[r].country : r \in DOMAIN df}

\* df[df["country"] == country].iloc[0]
FirstRow(df, country) ==
    df[CHOOSE r \in DOMAIN df :
          /\ df[r].country = country
          /\ \A q \in DOMAIN df : df[q].country = country => r <= q]

(***************************************************************************)
(* compute_total_co2_intensity_from_trade                                  *)
(***************************************************************************)
bauxite_grade == Frac(5, 10)

stochiometric_al == Frac(1889, 1000)

stochiometric_c == Frac(333, 1000)

stochiometric_co2 == Frac(1222, 1000)

fuel_oil_alumina == Frac(93, 1000)

fuel_oil_co2 == Frac(352, 100)

natural_gas_alumina == Frac(17, 100)

natural_gas_co2 == Frac(198, 100)

energy_alumina == Frac(109, 1000)

anode_footprint == Frac(15, 10)

total_bauxite_for_country(df, country_name) ==
    LET imports  == Div(SumWhere(df, "Bauxite_destination_m", country_name, "Bauxite_tonnes_m"), Num(1000))
        exports  == Div(SumWhere(df, "Bauxite_destination_x", country_name, "Bauxite_tonnes_x"), Num(1000))
        domestic == Mul(SumWhere(df, "Bauxite_local_country", country_name, "Bauxite_local_tonnes"), Num(1000))
        total    == Sub(Add(imports, domestic), exports)
    IN  Div(total, Num(1000000))

\* imports and exports swapped
total_alumina_swapped(df, country_name) ==
    LET imports == Div(SumWhere(df, "Alumina_destination_m", country_name, "Alumina_tonnes_m"), Num(1000))
        exports == Div(SumWhere(df, "Alumina_destination_x", country_name, "Alumina_tonnes_x"), Num(1000))
        total   == Sub(exports, imports)
    IN  Div(total, Num(1000000))

total_alumina_for_country(df, country_name) ==
    LET imports == Div(SumWhere(df, "Alumina_destination_m", country_name, "Alumina_tonnes_m"), Num(1000))
        exports == Div(SumWhere(df, "Alumina_destination_x", country_name, "Alumina_tonnes_x"), Num(1000))
        total   == Sub(imports, exports)
    IN  Div(total, Num(1000000))

electricity_footprint_per_country(df, country_name) ==
    SumWhere(df, "country1", country_name, "avg_co2_kg_per_kwh")

energy_intensity_per_country(df, country_name) ==
    Div(SumWhere(df, "country2", country_name, "energy_kwh_per_t"), Num(1000))

\* the voltage fixed at 4.64 V instead of the parameter
energy_hh_mode_1_fixed(vc, ce) == Div(Mul(Frac(29806, 10000), Frac(464, 100)), ce)

\* energy_hh_mode_1 = 2.9806 * voltage_cell / current_efficiency
energy_hh_mode_1_of(vc, ce) == Div(Mul(Frac(29806, 10000), vc), ce)

\* bauxite CO2 counted a second time, as if folded into alumina CO2 as well
total_co2_mode_folded(total_reaction_co2, bauxite_co2, alumina_co2, total_energy_co2, anode_co2) ==
    Add(Add(Add(Add(total_reaction_co2, bauxite_co2), Add(alumina_co2, bauxite_co2)),
            total_energy_co2), anode_co2)

\* total_co2_mode_1 and total_co2_mode_2: the sum of the five components
total_co2_mode(total_reaction_co2, bauxite_co2, alumina_co2, total_energy_co2, anode_co2) ==
    Add(Add(Add(Add(total_reaction_co2, bauxite_co2), alumina_co2),
            total_energy_co2), anode_co2)

\* total_bauxite, total_alumina and total_al from the two table balances
mass_balance(total_bauxite, alumina_net, ce) ==
    LET total_alumina == Add(Mul(total_bauxite, bauxite_grade), alumina_net)
    IN  [total_bauxite |-> total_bauxite,
         total_alumina |-> total_alumina,
         total_al |-> Mul(Div(total_alumina, stochiometric_al), ce)]

\* the CO2 components and the two totals, from the mass balance m
co2_components(m, energy_co2, energy_hh_mode_2, ce, bf, vc) ==
    LET total_c == Div(Mul(m.total_al, stochiometric_c), ce)
        total_reaction_co2 == Div(Mul(m.total_al, stochiometric_co2), ce)
        bauxite_co2 == Mul(bf, m.total_bauxite)
        alumina_co2 ==
            Mul(Add(Add(Mul(fuel_oil_alumina, fuel_oil_co2),
                        Mul(natural_gas_alumina, natural_gas_co2)),
                    Mul(energy_alumina, energy_co2)),
                m.total_alumina)
        energy_hh_mode_1 == energy_hh_mode_1_of(vc, ce)
        total_energy_co2_mode_1 == Mul(Mul(energy_co2, energy_hh_mode_1), m.total_al)
        total_energy_co2_mode_2 == Mul(Mul(energy_co2, energy_hh_mode_2), m.total_al)
        anode_co2 == Mul(anode_footprint, m.total_al)
    IN  [total_c |-> total_c,
         total_reaction_co2 |-> total_reaction_co2,
         bauxite_co2 |-> bauxite_co2,
         energy_co2 |-> energy_co2,
         alumina_co2 |-> alumina_co2,
         total_energy_co2_mode_1 |-> total_energy_co2_mode_1,
         total_energy_co2_mode_2 |-> total_energy_co2_mode_2,
         anode_co2 |-> anode_co2,
         total_co2_mode_1 |-> total_co2_mode(total_reaction_co2, bauxite_co2, alumina_co2,
                                             total_energy_co2_mode_1, anode_co2),
         total_co2_mode_2 |-> total_co2_mode(total_reaction_co2, bauxite_co2, alumina_co2,
                                             total_energy_co2_mode_2, anode_co2)]

\* the functional units and the component intensities, per tonne of aluminium
intensities(m, k) ==
    LET functional_unit_mode_1 == Div(k.total_co2_mode_1, m.total_al)
        functional_unit_mode_2 == Div(k.total_co2_mode_2, m.total_al)
        elec_intensity_mode_1 == Div(k.total_energy_co2_mode_1, m.total_al)
        elec_intensity_mode_2 == Div(k.total_energy_co2_mode_2, m.total_al)
    IN  [functional_unit_mode_1 |-> functional_unit_mode_1,
         functional_unit_mode_2 |-> functional_unit_mode_2,
         functional_unit_avg |->
             Div(Add(functional_unit_mode_1, functional_unit_mode_2), Num(2)),
         elec_intensity_avg |->
             Div(Add(elec_intensity_mode_1, elec_intensity_mode_2), Num(2)),
         reaction_intensity |-> Div(k.total_reaction_co2, m.total_al),
         bauxite_intensity |-> Div(k.bauxite_co2, m.total_al),
         anode_intensity |-> Div(k.anode_co2, m.total_al)]

\* every local of a call, given its mass balance m and its components k
all_locals(m, k, u) ==
    [total_bauxite |-> m.total_bauxite,
     total_alumina |-> m.total_alumina,
     total_al |-> m.total_al,
     total_c |-> k.total_c,
     total_reaction_co2 |-> k.total_reaction_co2,
     bauxite_co2 |-> k.bauxite_co2,
     energy_co2 |-> k.energy_co2,
     alumina_co2 |-> k.alumina_co2,
     total_energy_co2_mode_1 |-> k.total_energy_co2_mode_1,
     total_energy_co2_mode_2 |-> k.total_energy_co2_mode_2,
     anode_co2 |-> k.anode_co2,
     functional_unit_mode_1 |-> u.functional_unit_mode_1,
     functional_unit_mode_2 |-> u.functional_unit_mode_2,
     functional_unit_avg |-> u.functional_unit_avg,
     elec_intensity_avg |-> u.elec_intensity_avg,
     reaction_intensity |-> u.reaction_intensity,
     bauxite_intensity |-> u.bauxite_intensity,
     anode_intensity |-> u.anode_intensity]

with_components(m, k) == all_locals(m, k, intensities(m, k))

with_balance(m, df, country_name, ce, bf, vc) ==
    with_components(m, co2_components(m, electricity_footprint_per_country(df, country_name),
                                      energy_intensity_per_country(df, country_name),
                                      ce, bf, vc))

\* the body of compute_total_co2_intensity_from_trade: every local it computes
trade_locals(df, country_name, ce, bf, vc) ==
    with_balance(mass_balance(total_bauxite_for_country(df, country_name),
                              total_alumina_for_country(df, country_name), ce),
                 df, country_name, ce, bf, vc)

\* the dictionary with the Mode-1 electricity intensity in place of the mean
returned_elec_mode_1(l) ==
    [Functional_unit |-> l.functional_unit_avg,
     functional_unit_mode_1 |-> l.functional_unit_mode_1,
     functional_unit_mode_2 |-> l.functional_unit_mode_2,
     total_al |-> l.total_al,
     total_alumina |-> l.total_alumina,
     total_bauxite |-> l.total_bauxite,
     elec_tco2_per_tal |-> Div(l.total_energy_co2_mode_1, l.total_al),
     bauxite_tco2_per_tal |-> l.bauxite_intensity,
     anode_tco2_per_tal |-> l.anode_intensity,
     reaction_tco2_per_tal |-> l.reaction_intensity]

\* the dictionary the function returns
returned(l) ==
    [Functional_unit |-> l.functional_unit_avg,
     functional_unit_mode_1 |-> l.functional_unit_mode_1,
     functional_unit_mode_2 |-> l.functional_unit_mode_2,
     total_al |-> l.total_al,
     total_alumina |-> l.total_alumina,
     total_bauxite |-> l.total_bauxite,
     elec_tco2_per_tal |-> l.elec_intensity_avg,
     bauxite_tco2_per_tal |-> l.bauxite_intensity,
     anode_tco2_per_tal |-> l.anode_intensity,
     reaction_tco2_per_tal |-> l.reaction_intensity]

compute_total_co2_intensity_from_trade(df, country_name, ce, bf, vc) ==
    returned(trade_locals(df, country_name, ce, bf, vc))

(***************************************************************************)
(* The script: reference tables, sidebar parameters, core loop, assembly   *)
(***************************************************************************)
VARIABLES country_df, electricity_df, alumina_df, petcoke_df, sustainability_df,
          carbon_tax, margin_rate, current_efficiency, bauxite_footprint,
          voltage_cell, pos, co2_info, results, df, pc

tables == <<country_df, electricity_df, alumina_df, petcoke_df, sustainability_df>>

params == <<carbon_tax, margin_rate, current_efficiency, bauxite_footprint, voltage_cell>>

vars == <<tables, params, pos, co2_info, results, df, pc>>

\* values of the sidebar inputs the runs are drawn from
CarbonTaxes == {Num(60)}

MarginPercents == {Num(15)}

Efficiencies == {Frac(90, 100), Frac(50, 100)}

BauxiteFootprints == {Frac(35, 1000)}

Voltages == {Frac(464, 100)}

None == [none |-> TRUE]

countries_selected == SortedSeq(CountryValues(country_df))

\* the loop's first guard: a required dataset has no row for the country
MissingDataset(country) ==
    \/ country \notin CountryValues(electricity_df)
    \/ country \notin CountryValues(alumina_df)
    \/ country \notin CountryValues(petcoke_df)

\* only a missing result is rejected
InvalidEmissions_NoneOnly(info) == info = None

\* total_al == 0 is not tested
InvalidEmissions_NoZeroTest(info) ==
    \/ info = None
    \/ IsNaN(info.Functional_unit)

\* the loop's second guard on the result of the emissions function
InvalidEmissions(info) ==
    \/ info = None
    \/ IsNaN(info.Functional_unit)
    \/ IsZero(info.total_al)

\* total_co2 = co2_info["Functional_unit"]
total_co2_of(info) == info.Functional_unit

\* carbon cost summed again from the per-source breakdown
carbon_cost_from_breakdown(info, tax) ==
    Mul(Add(Add(Add(info.elec_tco2_per_tal, info.bauxite_tco2_per_tal),
                info.anode_tco2_per_tal), info.reaction_tco2_per_tal), tax)

\* carbon_cost = total_co2 * carbon_tax
carbon_cost_of(info, tax) == Mul(total_co2_of(info), tax)

\* the margin left out of the total
total_cost_without_margin(operational_cost, margin_cost, carbon_cost) ==
    Add(operational_cost, carbon_cost)

total_cost_of(operational_cost, margin_cost, carbon_cost) ==
    Add(Add(operational_cost, margin_cost), carbon_cost)

\* the cost lines of the loop body for a country that passed both guards
costs(cdata, edata, alumina_row, petcoke_row, info) ==
    LET E == cdata.energy_kwh_per_t
        labour_cost == cdata.labour_cost_eur_per_t
        electricity_price == edata.avg_electricity_price_eur_per_kwh
        grid_co2_intensity == edata.avg_co2_kg_per_kwh
        electricity_cost == Mul(E, electricity_price)
        alumina_cost == Add(alumina_row.alumina_market_price_eur_per_t,
                            alumina_row.alumina_transport_cost_eur_per_t)
        petcoke_cost == Add(petcoke_row.petcoke_market_price_eur_per_t,
                            petcoke_row.petcoke_transport_cost_eur_per_t)
        material_cost == Div(Add(Mul(alumina_cost, Frac(1889, 1000)),
                                 Mul(petcoke_cost, Frac(333, 1000))),
                             current_efficiency)
    IN  [electricity_price |-> electricity_price,
         grid_co2_intensity |-> grid_co2_intensity,
         electricity_cost |-> electricity_cost,
         electricity_co2 |-> Div(Mul(E, grid_co2_intensity), Num(1000)),
         labour_cost |-> labour_cost,
         material_cost |-> material_cost,
         carbon_cost |-> carbon_cost_of(info, carbon_tax),
         operational_cost |-> Add(Add(electricity_cost, labour_cost), material_cost)]

\* the dictionary the loop appends
record_of(country, info, k, margin_cost) ==
    [Country |-> country,
     Electricity_price |-> k.electricity_price,
     Electricity_CO2_footprint |-> k.grid_co2_intensity,
     Electricity_cost |-> k.electricity_cost,
     Labour_cost |-> k.labour_cost,
     Material_cost |-> k.material_cost,
     Carbon_cost |-> k.carbon_cost,
     Margin |-> margin_cost,
     Total_cost |-> total_cost_of(k.operational_cost, margin_cost, k.carbon_cost),
     Total_CO2_footprint |-> total_co2_of(info),
     Electricity_CO2 |-> k.electricity_co2,
     CO2_elec |-> info.elec_tco2_per_tal,
     CO2_bauxite |-> info.bauxite_tco2_per_tal,
     CO2_anode |-> info.anode_tco2_per_tal,
     CO2_reaction |-> info.reaction_tco2_per_tal,
     Total_Al |-> info.total_al]

\* the margin taken on operational plus carbon cost
with_costs_margin_on_carbon(country, info, k) ==
    record_of(country, info, k, Mul(Add(k.operational_cost, k.carbon_cost), margin_rate))

with_costs(country, info, k) ==
    record_of(country, info, k, Mul(k.operational_cost, margin_rate))

\* the record the loop appends for a country that passed both guards
ResultRecord(country, info) ==
    with_costs(country, info,
               costs(FirstRow(country_df, country), FirstRow(electricity_df, country),
                     FirstRow(alumina_df, country), FirstRow(petcoke_df, country), info))

\* the record put in front instead of at the end
PrependResult(rs, record) == <<record>> \o rs

\* results.append(record)
AppendResult(rs, record) == Append(rs, record)

\* every country of country_df has a row in each of the three cost tables
CostTablesComplete ==
    \A c \in CountryValues(country_df) :
        /\ c \in CountryValues(electricity_df)
        /\ c \in CountryValues(alumina_df)
        /\ c \in CountryValues(petcoke_df)

\* the second guard and the append, for the result info of the call
AfterGuard(rs, country, info) ==
    IF InvalidEmissions(info) THEN rs
    ELSE AppendResult(rs, ResultRecord(country, info))

\* the table of a cost dataset with one row for each country of S
ElectricityTable(S) == [r \in DOMAIN SortedSeq(S) |-> ElectricityRow(SortedSeq(S)[r])]

AluminaTable(S) == [r \in DOMAIN SortedSeq(S) |-> AluminaRow(SortedSeq(S)[r])]

PetcokeTable(S) == [r \in DOMAIN SortedSeq(S) |-> PetcokeRow(SortedSeq(S)[r])]

\* The cost tables hold rows only for countries of country_df: the loop never
\* reads a row of any other country.  At most one of the three cost tables
\* lacks countries; a run with an incomplete cost table takes a trade-flow
\* table of at most one row, a run with complete cost tables one of up to
\* MaxTradeRows rows.
Init ==
    /\ country_df \in {[r \in DOMAIN s |-> CountryRow(s[r])] :
                          s \in SeqsUpTo(Countries, MaxCountryRows) \ {<<>>}}
    /\ \E S \in SUBSET CountryValues(country_df) :
          \E short \in {"electricity", "alumina", "petcoke"} :
             /\ electricity_df = ElectricityTable(IF short = "electricity" THEN S
                                                  ELSE CountryValues(country_df))
             /\ alumina_df = AluminaTable(IF short = "alumina" THEN S
                                          ELSE CountryValues(country_df))
             /\ petcoke_df = PetcokeTable(IF short = "petcoke" THEN S
                                          ELSE CountryValues(country_df))
    /\ sustainability_df \in TradeTables(IF CostTablesComplete THEN MaxTradeRows ELSE 1)
    /\ carbon_tax \in CarbonTaxes
    /\ margin_rate \in {Div(m, Num(100)) : m \in MarginPercents}
    /\ current_efficiency \in Efficiencies
    /\ bauxite_footprint \in BauxiteFootprints
    /\ voltage_cell \in Voltages
    /\ pos = 1
    /\ co2_info = None
    /\ results = <<>>
    /\ df = <<>>
    /\ pc = "loop"

\* one iteration of `for country in countries_selected`
LoopStep ==
    /\ pc = "loop"
    /\ pos <= Len(countries_selected)
    /\ IF MissingDataset(countries_selected[pos])
       THEN UNCHANGED <<co2_info, results>>
       ELSE /\ co2_info' = compute_total_co2_intensity_from_trade(
                               sustainability_df, countries_selected[pos],
                               current_efficiency, bauxite_footprint, voltage_cell)
            /\ results' = AfterGuard(results, countries_selected[pos], co2_info')
    /\ pos' = pos + 1
    /\ UNCHANGED <<tables, params, df, pc>>

\* df = pd.DataFrame(results); df["Total CO2 (t)"] = footprint * Total Al.
\* A DataFrame built from an empty list has no columns, and selecting the
\* footprint column raises KeyError.
Assemble ==
    /\ pc = "loop"
    /\ pos > Len(countries_selected)
    /\ IF results = <<>>
       THEN /\ df' = <<>>
            /\ pc' = "KeyError"
       ELSE /\ df' = [r \in DOMAIN results |->
                        [row |-> results[r],
                         Total_CO2 |-> Mul(results[r].Total_CO2_footprint,
                                           results[r].Total_Al)]]
            /\ pc' = "done"
    /\ UNCHANGED <<tables, params, pos, co2_info, results>>

Next == LoopStep \/ Assemble

Spec == Init /\ [][Next]_vars

(***************************************************************************)
(* Vocabulary of the properties                                            *)
(***************************************************************************)
\* the loop has visited every country of countries_selected
LoopDone == pos > Len(countries_selected)

\* results holds a record for country c
InResults(c) == \E r \in DOMAIN results : results[r].Country = c

\* the position of c in sq (0 when c does not occur)
IndexIn(sq, c) ==
    IF \E p \in DOMAIN sq : sq[p] = c
    THEN CHOOSE p \in DOMAIN sq : sq[p] = c /\ \A q \in DOMAIN sq : sq[q] = c => p <= q
    ELSE 0

\* the loop has visited country c
Visited(c) == IndexIn(countries_selected, c) \in 1..(pos - 1)

\* no row of the trade-flow table names c in any of its country columns
AbsentFromTrade(c) ==
    \A r \in DOMAIN sustainability_df :
        LET row == sustainability_df[r]
        IN  /\ row.Bauxite_destination_m # c /\ row.Bauxite_destination_x # c
            /\ row.Bauxite_local_country # c
            /\ row.Alumina_destination_m # c /\ row.Alumina_destination_x # c
            /\ row.country1 # c /\ row.country2 # c

InAllCostTables(c) ==
    /\ c \in CountryValues(electricity_df)
    /\ c \in CountryValues(alumina_df)
    /\ c \in CountryValues(petcoke_df)

\* the emissions function was called in the last iteration, for LastCountry
Called == pc = "loop" /\ pos > 1 /\ InAllCostTables(countries_selected[pos - 1])

LastCountry == countries_selected[pos - 1]

\* the locals of a call for c under the run's parameters, with voltage v
LocalsAt(c, v) ==
    trade_locals(sustainability_df, c, current_efficiency, bauxite_footprint, v)

AluminaImports(c) == SumWhere(sustainability_df, "Alumina_destination_m", c, "Alumina_tonnes_m")

AluminaExports(c) == SumWhere(sustainability_df, "Alumina_destination_x", c, "Alumina_tonnes_x")

\* the alumina balance of c from the table's sums, in 1e9 kg:
\* half the bauxite balance plus alumina imports minus alumina exports
TotalAlumina(c) ==
    Add(Mul(total_bauxite_for_country(sustainability_df, c), Frac(1, 2)),
        Div(Sub(AluminaImports(c), AluminaExports(c)), Num(1000000000)))

\* voltages of the second call that is compared with the run's call
OtherVoltages == {Num(3), Num(10)}

(***************************************************************************)
(* C1: a selected country that is absent from the electricity table, the   *)
(* alumina-cost table, the petcoke-cost table or the trade-flow table has  *)
(* no record in results, at any point of the loop and after it.            *)
(***************************************************************************)
C1_MissingCountryExcluded ==
    \A c \in Countries :
        (~InAllCostTables(c) \/ AbsentFromTrade(c)) => ~InResults(c)

\* the loop is over; one selected country has an electricity row but no
\* alumina row, another has all three cost rows but no trade-flow row
C1_Witness ==
    /\ LoopDone
    /\ \E c \in Countries :
          /\ Visited(c)
          /\ c \in CountryValues(electricity_df)
          /\ c \notin CountryValues(alumina_df)
    /\ \E c \in Countries :
          Visited(c) /\ InAllCostTables(c) /\ AbsentFromTrade(c)

(***************************************************************************)
(* C2: a country whose bauxite balance total_bauxite is <= 0 has no record *)
(* in results, whatever its alumina flows.                                 *)
(***************************************************************************)
C2_NonPositiveBauxiteDropped ==
    \A c \in Countries :
        NonPos(total_bauxite_for_country(sustainability_df, c)) => ~InResults(c)

(***************************************************************************)
(* C3: when the emissions function returns total_al = 0 or an undefined    *)
(* (nan) functional unit for the loop's country (co2_info after the step   *)
(* is what the call returned), the iteration appends no record, raises     *)
(* nothing and the loop moves on to the next country.                      *)
(***************************************************************************)
C3_InvalidBalanceSkipped ==
    [][(/\ pc = "loop"
        /\ ~LoopDone
        /\ InAllCostTables(countries_selected[pos])
        /\ IsZero(co2_info'.total_al) \/ IsNaN(co2_info'.Functional_unit))
       => (results' = results /\ pos' = pos + 1 /\ pc' = "loop")]_vars

\* a country with positive bauxite but total_al = 0 was skipped and a later
\* country was processed and recorded
C3_Witness ==
    /\ Len(countries_selected) = 2
    /\ LoopDone
    /\ InAllCostTables(countries_selected[1])
    /\ Pos(total_bauxite_for_country(sustainability_df, countries_selected[1]))
    /\ IsZero(TotalAlumina(countries_selected[1]))
    /\ ~InResults(countries_selected[1])
    /\ InResults(countries_selected[2])

(***************************************************************************)
(* C4: whatever countries are excluded, the run ends without an error: the *)
(* loop completes and the result table with its derived column is built.   *)
(***************************************************************************)
C4_RunNeverRaises == pc # "KeyError"

(***************************************************************************)
(* C5: in every result record the carbon cost is the record's total CO2    *)
(* footprint times carbon_tax, and the footprint of the record appended    *)
(* for the last call is the Functional_unit that call returned.            *)
(***************************************************************************)
C5_CarbonCostFromTotalFootprint ==
    /\ \A r \in DOMAIN results :
          Eq(results[r].Carbon_cost, Mul(results[r].Total_CO2_footprint, carbon_tax))
    /\ (Called /\ InResults(LastCountry)) =>
          Eq(results[Len(results)].Total_CO2_footprint, co2_info.Functional_unit)

\* a record with a positive carbon cost whose breakdown sum and
\* electricity-only figure both differ from the total footprint
C5_Witness ==
    \E r \in DOMAIN results :
        /\ Pos(results[r].Carbon_cost)
        /\ Pos(results[r].CO2_elec)
        /\ ~Eq(results[r].Total_CO2_footprint, results[r].Electricity_CO2)
        /\ ~Eq(results[r].Total_CO2_footprint,
               Add(Add(Add(results[r].CO2_elec, results[r].CO2_bauxite),
                       results[r].CO2_anode), results[r].CO2_reaction))

(***************************************************************************)
(* C6: in every result record total cost = operational cost x               *)
(* (1 + margin_rate) + carbon cost, with operational cost = electricity +  *)
(* labour + material cost, and margin = operational cost x margin_rate.    *)
(***************************************************************************)
C6_TotalCostIdentity ==
    \A r \in DOMAIN results :
        LET operational_cost == Add(Add(results[r].Electricity_cost, results[r].Labour_cost),
                                    results[r].Material_cost)
        IN  /\ Eq(results[r].Total_cost,
                  Add(Mul(operational_cost, Add(Num(1), margin_rate)),
                      results[r].Carbon_cost))
            /\ Eq(results[r].Margin, Mul(operational_cost, margin_rate))

\* two records, each with a positive margin and a positive carbon cost
C6_Witness ==
    /\ Len(results) = 2
    /\ \A r \in DOMAIN results :
          Pos(results[r].Margin) /\ Pos(results[r].Carbon_cost)

SameFrame(a, b) ==
    /\ Eq(a.total_energy_co2_mode_2, b.total_energy_co2_mode_2)
    /\ Eq(a.total_reaction_co2, b.total_reaction_co2)
    /\ Eq(a.bauxite_co2, b.bauxite_co2)
    /\ Eq(a.alumina_co2, b.alumina_co2)
    /\ Eq(a.anode_co2, b.anode_co2)
    /\ Eq(a.total_al, b.total_al)
    /\ Eq(a.total_alumina, b.total_alumina)
    /\ Eq(a.total_bauxite, b.total_bauxite)

ModeOneDiffers(a, b) ==
    /\ ~Eq(a.total_energy_co2_mode_1, b.total_energy_co2_mode_1)
    /\ ~Eq(a.functional_unit_mode_1, b.functional_unit_mode_1)

C8_VoltageChangesModeOneOnly ==
    Called =>
        \A v \in OtherVoltages :
            /\ ModeOneDiffers(LocalsAt(LastCountry, voltage_cell), LocalsAt(LastCountry, v))
            /\ Eq(LocalsAt(LastCountry, voltage_cell).functional_unit_mode_2,
                  LocalsAt(LastCountry, v).functional_unit_mode_2)
            /\ SameFrame(LocalsAt(LastCountry, voltage_cell), LocalsAt(LastCountry, v))

VoltageEffect(a, b) ==
    /\ SameFrame(a, b)
    /\ ~IsZero(a.total_al) => Eq(a.functional_unit_mode_2, b.functional_unit_mode_2)
    /\ IF ~IsZero(a.energy_co2) /\ ~IsZero(a.total_al)
       THEN ModeOneDiffers(a, b)
       ELSE Eq(a.total_energy_co2_mode_1, b.total_energy_co2_mode_1)

VoltageEffectAt(a, c) ==
    \A v \in OtherVoltages : VoltageEffect(a, LocalsAt(c, v))

(***************************************************************************)
(* C8 amended: the two calls return the same Mode-2 energy CO2, reaction,  *)
(* bauxite, alumina-refining and anode CO2, total_al, total_alumina and    *)
(* total_bauxite, and the same functional_unit_mode_2 when total_al # 0;   *)
(* their Mode-1 energy CO2 and functional_unit_mode_1 differ when the      *)
(* country's summed grid CO2 intensity and its total_al are both nonzero,  *)
(* and otherwise the Mode-1 energy CO2 is the same in both calls.          *)
(***************************************************************************)
C8_VoltageChangesModeOneWhenGridNonzero ==
    Called => VoltageEffectAt(LocalsAt(LastCountry, voltage_cell), LastCountry)

\* the call was made for a country with positive bauxite CO2, a grid CO2
\* intensity and an energy intensity in the table
C8_Witness ==
    /\ Called
    /\ Pos(co2_info.total_al)
    /\ Pos(co2_info.elec_tco2_per_tal)
    /\ Pos(co2_info.bauxite_tco2_per_tal)
    /\ Pos(SumWhere(sustainability_df, "country2", LastCountry, "energy_kwh_per_t"))

(***************************************************************************)
(* C9: results holds exactly one record for each visited country that      *)
(* passed both guards and none for any other; the records are in the order *)
(* of countries_selected (a subsequence of it, no country twice), and the  *)
(* result table lists them in that same order.                             *)
(***************************************************************************)
\* c passes both guards: it has its three cost rows and a nonzero alumina
\* balance (total_al is that balance times current_efficiency / 1.889)
Survives(c) == InAllCostTables(c) /\ ~IsZero(TotalAlumina(c))

C9_ResultsInSelectionOrder ==
    /\ \A r \in DOMAIN results : Visited(results[r].Country)
    /\ \A r, s \in DOMAIN results :
          r < s => IndexIn(countries_selected, results[r].Country)
                     < IndexIn(countries_selected, results[s].Country)
    /\ \A c \in Countries : (Visited(c) /\ Survives(c)) => InResults(c)
    /\ pc = "done" =>
          /\ Len(df) = Len(results)
          /\ \A r \in DOMAIN results : df[r].row = results[r]

\* country_df lists the countries out of order and both are in the table
C9_Witness ==
    /\ pc = "done"
    /\ Len(country_df) > 1
    /\ country_df[1].country > country_df[2].country
    /\ Len(df) = 2

(***************************************************************************)
(* C10: when total_al # 0 the returned Functional_unit is                  *)
(* (reaction + bauxite + alumina-refining + anode CO2 + the mean of the    *)
(* Mode-1 and Mode-2 energy CO2) / total_al, each component once, the      *)
(* components taken from the returned total_al, total_alumina and          *)
(* total_bauxite and the table's grid CO2 and energy intensity sums.       *)
(***************************************************************************)
C10_FunctionalUnitFormula ==
    Called =>
        LET l == co2_info
            grid == SumWhere(sustainability_df, "country1", LastCountry, "avg_co2_kg_per_kwh")
            reaction == Div(Mul(l.total_al, Frac(1222, 1000)), current_efficiency)
            bauxite == Mul(bauxite_footprint, l.total_bauxite)
            refining == Mul(Add(Add(Frac(32736, 100000), Frac(3366, 10000)),
                                Mul(Frac(109, 1000), grid)),
                            l.total_alumina)
            anode == Mul(Frac(3, 2), l.total_al)
            mode_1 == Mul(grid,
                          Mul(Div(Mul(Frac(29806, 10000), voltage_cell), current_efficiency),
                              l.total_al))
            mode_2 == Mul(grid,
                          Mul(Div(SumWhere(sustainability_df, "country2", LastCountry,
                                           "energy_kwh_per_t"), Num(1000)),
                              l.total_al))
            sum == Add(Add(Add(Add(reaction, bauxite), refining), anode),
                       Div(Add(mode_1, mode_2), Num(2)))
        IN  ~IsZero(l.total_al) => Eq(co2_info.Functional_unit, Div(sum, l.total_al))

\* the call was made for a country with nonzero total_al, positive bauxite
\* CO2 and two different positive energy CO2 figures
C10_Witness ==
    /\ Called
    /\ ~IsZero(co2_info.total_al)
    /\ Pos(co2_info.bauxite_tco2_per_tal)
    /\ Pos(co2_info.elec_tco2_per_tal)
    /\ ~Eq(co2_info.functional_unit_mode_1, co2_info.functional_unit_mode_2)

\* the tables and parameters give country c the figures of the scenario
Scenario(c) ==
    /\ Eq(FirstRow(country_df, c).energy_kwh_per_t, Num(13000))
    /\ Eq(FirstRow(country_df, c).labour_cost_eur_per_t, Num(200))
    /\ Eq(FirstRow(electricity_df, c).avg_electricity_price_eur_per_kwh, Frac(5, 100))
    /\ Eq(FirstRow(electricity_df, c).avg_co2_kg_per_kwh, Frac(6, 10))
    /\ Eq(Add(FirstRow(alumina_df, c).alumina_market_price_eur_per_t,
              FirstRow(alumina_df, c).alumina_transport_cost_eur_per_t), Num(400))
    /\ Eq(Add(FirstRow(petcoke_df, c).petcoke_market_price_eur_per_t,
              FirstRow(petcoke_df, c).petcoke_transport_cost_eur_per_t), Num(300))
    /\ Eq(carbon_tax, Num(60))
    /\ Eq(margin_rate, Frac(15, 100))

(***************************************************************************)
(* C11: the record of a country with the scenario's figures has            *)
(* electricity cost 650, electricity CO2 7.8, material cost 700, margin     *)
(* 232.5 (operational cost 1550), carbon cost = total footprint x          *)
(* carbon_tax, and total cost = 1550 + 232.5 + carbon cost.                *)
(***************************************************************************)
C11_ScenarioRecord ==
    \A r \in DOMAIN results :
        Scenario(results[r].Country) =>
            /\ Eq(results[r].Electricity_cost, Num(650))
            /\ Eq(results[r].Electricity_CO2, Frac(78, 10))
            /\ Eq(results[r].Material_cost, Num(700))
            /\ Eq(Add(Add(results[r].Electricity_cost, results[r].Labour_cost),
                      results[r].Material_cost), Num(1550))
            /\ Eq(results[r].Margin, Frac(2325, 10))
            /\ Eq(results[r].Carbon_cost, Mul(results[r].Total_CO2_footprint, carbon_tax))
            /\ Eq(results[r].Total_cost,
                  Add(Add(Num(1550), Frac(2325, 10)), results[r].Carbon_cost))

\* the sum of the four breakdown fields of record r
BreakdownSum(r) == Add(Add(Add(r.CO2_elec, r.CO2_bauxite), r.CO2_anode), r.CO2_reaction)

\* alumina_co2 of the last call, from the returned total_alumina and the
\* table's grid CO2 intensity sum (lines 274-279)
RefiningCO2 ==
    Mul(Add(Add(Frac(32736, 100000), Frac(3366, 10000)),
            Mul(Frac(109, 1000),
                SumWhere(sustainability_df, "country1", LastCountry, "avg_co2_kg_per_kwh"))),
        co2_info.total_alumina)

BreakdownGap(r, refining) ==
    /\ Eq(Sub(r.Total_CO2_footprint, BreakdownSum(r)), Div(refining, r.Total_Al))
    /\ Eq(BreakdownSum(r), r.Total_CO2_footprint) <=> IsZero(refining)
    /\ ~Eq(BreakdownSum(r), r.Total_CO2_footprint)

(***************************************************************************)
(* C12: in the record appended for the last call, total footprint minus    *)
(* the sum of the four breakdown intensities (electricity, bauxite, anode, *)
(* reaction) equals alumina_co2 / total_al; the breakdown equals the total *)
(* exactly when alumina_co2 is zero, and it does not in any record.        *)
(***************************************************************************)
C12_BreakdownOmitsRefining ==
    (Called /\ InResults(LastCountry)) => BreakdownGap(results[Len(results)], RefiningCO2)

\* a second record was appended, with positive electricity and bauxite
\* intensities and a positive refining CO2
C12_Witness ==
    /\ Called
    /\ InResults(LastCountry)
    /\ Len(results) = 2
    /\ Pos(results[2].CO2_elec)
    /\ Pos(results[2].CO2_bauxite)
    /\ Pos(RefiningCO2)

ChangedVoltages == {Num(10)}

OtherBauxiteFootprints == {Frac(1, 10)}

\* the result of the call for c with cell voltage v and bauxite footprint bf
InfoAt(c, v, bf) ==
    compute_total_co2_intensity_from_trade(sustainability_df, c, current_efficiency, bf, v)

\* operational_cost of a record (line 396)
OperationalCost(r) == Add(Add(r.Electricity_cost, r.Labour_cost), r.Material_cost)

\* electricity, labour, material and operational cost and margin agree, and
\* electricity cost is energy_kwh_per_t x electricity price
SameCostLines(a, b) ==
    /\ Eq(a.Electricity_cost, b.Electricity_cost)
    /\ Eq(a.Labour_cost, b.Labour_cost)
    /\ Eq(a.Material_cost, b.Material_cost)
    /\ Eq(OperationalCost(a), OperationalCost(b))
    /\ Eq(a.Margin, b.Margin)
    /\ Eq(b.Electricity_cost,
          Mul(FirstRow(country_df, b.Country).energy_kwh_per_t,
              FirstRow(electricity_df, b.Country).avg_electricity_price_eur_per_kwh))

\* the fields outside the cost lines, the footprint, the carbon cost, the
\* total cost and the electricity and bauxite intensities agree
SameOtherFields(a, b) ==
    /\ a.Country = b.Country
    /\ Eq(a.Electricity_price, b.Electricity_price)
    /\ Eq(a.Electricity_CO2_footprint, b.Electricity_CO2_footprint)
    /\ Eq(a.Electricity_CO2, b.Electricity_CO2)
    /\ Eq(a.CO2_anode, b.CO2_anode)
    /\ Eq(a.CO2_reaction, b.CO2_reaction)
    /\ Eq(a.Total_Al, b.Total_Al)

\* the frame of a change of voltage_cell, between records a and b
VoltageFrame(a, b) ==
    /\ SameCostLines(a, b)
    /\ SameOtherFields(a, b)
    /\ Eq(a.CO2_bauxite, b.CO2_bauxite)

\* the frame of a change of bauxite_footprint, between records a and b
BauxiteFrame(a, b) ==
    /\ SameCostLines(a, b)
    /\ SameOtherFields(a, b)
    /\ Eq(a.CO2_elec, b.CO2_elec)

\* the frame in which only footprint, carbon cost and total cost may change
StrictFrame(a, b) ==
    /\ VoltageFrame(a, b)
    /\ BauxiteFrame(a, b)

\* the changed run keeps the country (its result info passes the guard) and
\* the cost lines of its record equal those of record a
KeptWithVoltageFrame(a, info) ==
    ~InvalidEmissions(info) => VoltageFrame(a, ResultRecord(a.Country, info))

KeptWithBauxiteFrame(a, info) ==
    ~InvalidEmissions(info) => BauxiteFrame(a, ResultRecord(a.Country, info))

KeptWithStrictFrame(a, info) ==
    ~InvalidEmissions(info) => StrictFrame(a, ResultRecord(a.Country, info))

\* the changed run keeps the country and its record has another total cost
KeptWithOtherTotal(a, info) ==
    /\ ~InvalidEmissions(info)
    /\ ~Eq(a.Total_cost, ResultRecord(a.Country, info).Total_cost)

(***************************************************************************)
(* C13 as stated: for the country of the last record, a run that differs   *)
(* only in voltage_cell or only in bauxite_footprint and keeps the country *)
(* builds a record with the same electricity, labour, material and         *)
(* operational cost and margin, electricity cost being energy_kwh_per_t x  *)
(* electricity price, and with every other field the same except the      *)
(* total CO2 footprint, the carbon cost and the total cost.                *)
(***************************************************************************)
C13_OnlyFootprintCarbonTotalChange ==
    (Called /\ InResults(LastCountry)) =>
        /\ \A v \in ChangedVoltages :
              KeptWithStrictFrame(results[Len(results)],
                                  InfoAt(LastCountry, v, bauxite_footprint))
        /\ \A bf \in OtherBauxiteFootprints :
              KeptWithStrictFrame(results[Len(results)],
                                  InfoAt(LastCountry, voltage_cell, bf))

(***************************************************************************)
(* C13 amended: the same cost lines are unchanged, and every other field   *)
(* is the same except the total CO2 footprint, the carbon cost, the total  *)
(* cost and the breakdown intensity the parameter enters: CO2 elec for     *)
(* voltage_cell, CO2 bauxite for bauxite_footprint.                        *)
(***************************************************************************)
C13_CostLinesUnaffected ==
    (Called /\ InResults(LastCountry)) =>
        /\ \A v \in ChangedVoltages :
              KeptWithVoltageFrame(results[Len(results)],
                                   InfoAt(LastCountry, v, bauxite_footprint))
        /\ \A bf \in OtherBauxiteFootprints :
              KeptWithBauxiteFrame(results[Len(results)],
                                   InfoAt(LastCountry, voltage_cell, bf))

\* the last record's country stays in the result set under another voltage
\* and under another bauxite footprint, and each change moves its total cost
C13_Witness ==
    /\ Called
    /\ InResults(LastCountry)
    /\ \E v \in ChangedVoltages :
          KeptWithOtherTotal(results[Len(results)],
                             InfoAt(LastCountry, v, bauxite_footprint))
    /\ \E bf \in OtherBauxiteFootprints :
          KeptWithOtherTotal(results[Len(results)],
                             InfoAt(LastCountry, voltage_cell, bf))

====
